---- MODULE Spec2Model ----
(***************************************************************************)
(* write_ref: write-only references and write-only slices.                 *)
(*                                                                         *)
(* The crate has two trait methods, each with a single implementation:     *)
(*   WriteRef::write        for &mut T    [ ** self = t ]                  *)
(*   WriteSlice::write_elem for &mut [T]  [ self[idx] = t ]                *)
(* and two documented callers, clear and copy_buffer.                      *)
(*                                                                         *)
(* A behaviour is one caller that hands out one handle, a &mut T or a       *)
(* &mut [T], and the calls made through it.  The model keeps the storage   *)
(* behind the handle (run A) together with a second storage of the same    *)
(* length (run B) that receives exactly the same calls, so that dependence *)
(* of a call on prior contents shows as a disagreement between the runs.   *)
(***************************************************************************)
EXTENDS Integers, Sequences, FiniteSets, TLC

\* ---------------------------------------------------------------- bounds
MaxVal == 1        \* values of T are 0..MaxVal
MaxLen == 2        \* slices have length 0..MaxLen
MaxCalls == 2      \* trait-method calls recorded per run

Values == 0..MaxVal
Indices == 0..MaxLen      \* usize arguments tried; MaxLen is out of range for every slice

RECURSIVE SeqsOfLen(_)
SeqsOfLen(n) ==
    IF n = 0 THEN {<<>>}
    ELSE {Append(s, v) : s \in SeqsOfLen(n - 1), v \in Values}

SeqsUpTo(n) == UNION {SeqsOfLen(k) : k \in 0..n}

Slices == SeqsUpTo(MaxLen)
Inputs == SeqsUpTo(MaxLen + 1)

\* ----------------------------------------------------------------- state
VARIABLES
    handle,     \* what the caller handed out: "ref" (&mut T) or "slice" (&mut [T])
    cell,       \* run A: the T behind the &mut T
    slice,      \* run A: the [T] behind the &mut [T]
    cellB,      \* run B: same calls, other initial content
    sliceB,
    init,       \* contents of both runs when the handles were created
    calls,      \* the write / write_elem calls made so far, in order
    outcome,    \* how the last operation on run A ended
    outcomeB,   \* how the last operation on run B ended
    last        \* the last operation: its name, arguments and run A's slice before it

vars == <<handle, cell, slice, cellB, sliceB, init, calls, outcome, outcomeB, last>>

\* Default::default() of the integer cell in the WriteRef example
Default == 0

\* ------------------------------------------------------ the trait methods
\* Variants of write with a defect: the store is left out; the larger of the
\* old and the new value is kept.
write_forget(self, t) ==
    [cell |-> self, outcome |-> "ok"]

write_max(self, t) ==
    [cell |-> IF self > t THEN self ELSE t, outcome |-> "ok"]

\* impl WriteRef for &mut T: fn write(&mut self, t: T) stores t in the referent.
write(self, t) ==
    [cell |-> t, outcome |-> "ok"]

\* Variants of write_elem with a defect.
\* every element from idx on is overwritten
write_elem_fill(self, idx, t) ==
    IF idx >= Len(self)
    THEN [slice |-> self, outcome |-> "panic"]
    ELSE [slice |-> [k \in 1..Len(self) |-> IF k >= idx + 1 THEN t ELSE self[k]],
          outcome |-> "ok"]

\* the bounds check is off by one: idx = len returns without storing
write_elem_lenient(self, idx, t) ==
    IF idx > Len(self)
    THEN [slice |-> self, outcome |-> "panic"]
    ELSE IF idx = Len(self)
         THEN [slice |-> self, outcome |-> "ok"]
         ELSE [slice |-> [self EXCEPT ![idx + 1] = t], outcome |-> "ok"]

\* the element is stored only while it still holds Default
write_elem_once(self, idx, t) ==
    IF idx >= Len(self)
    THEN [slice |-> self, outcome |-> "panic"]
    ELSE IF self[idx + 1] # Default
         THEN [slice |-> self, outcome |-> "ok"]
         ELSE [slice |-> [self EXCEPT ![idx + 1] = t], outcome |-> "ok"]

\* the value is also stored in the following element
write_elem_spill(self, idx, t) ==
    IF idx >= Len(self)
    THEN [slice |-> self, outcome |-> "panic"]
    ELSE [slice |-> [k \in 1..Len(self) |->
                        IF k = idx + 1 \/ k = idx + 2 THEN t ELSE self[k]],
          outcome |-> "ok"]

\* the larger of the old and the new element is kept
write_elem_max(self, idx, t) ==
    IF idx >= Len(self)
    THEN [slice |-> self, outcome |-> "panic"]
    ELSE [slice |-> [self EXCEPT ![idx + 1] = IF @ > t THEN @ ELSE t],
          outcome |-> "ok"]

\* an out-of-range index is clamped to the last element before the panic
write_elem_clamp(self, idx, t) ==
    IF idx >= Len(self)
    THEN [slice |-> [k \in 1..Len(self) |-> IF k = Len(self) THEN t ELSE self[k]],
          outcome |-> "panic"]
    ELSE [slice |-> [self EXCEPT ![idx + 1] = t], outcome |-> "ok"]

\* impl WriteSlice for &mut [T]: fn write_elem(&mut self, idx, t) { self[idx] = t; }
\* IndexMut on a slice panics when idx >= len, before anything is stored.
write_elem(self, idx, t) ==
    IF idx >= Len(self)
    THEN [slice |-> self, outcome |-> "panic"]
    ELSE [slice |-> [self EXCEPT ![idx + 1] = t], outcome |-> "ok"]

\* fn clear(mut r: impl WriteRef<To=T>) { r.write(Default::default()); }
clear(r) ==
    write(r, Default)

WriteCall(t, o) == [op |-> "write", idx |-> 0, val |-> t, outcome |-> o]
ElemCall(idx, t, o) == [op |-> "write_elem", idx |-> idx, val |-> t, outcome |-> o]

\* fn copy_buffer(input, mut output) {
\*     for (i, val) in input.iter().enumerate() { output.write_elem(i, *val); }
\* }
\* A panicking write_elem unwinds out of the loop.
RECURSIVE copy_loop(_, _, _, _)
copy_loop(input, output, i, made) ==
    IF i >= Len(input)
    THEN [slice |-> output, outcome |-> "ok", calls |-> made]
    ELSE LET r == write_elem(output, i, input[i + 1])
             m == Append(made, ElemCall(i, input[i + 1], r.outcome))
         IN  IF r.outcome = "panic"
             THEN [slice |-> r.slice, outcome |-> "panic", calls |-> m]
             ELSE copy_loop(input, r.slice, i + 1, m)

\* Variant of copy_buffer with a defect: the enumeration starts at 1.
copy_buffer_from1(input, output) ==
    copy_loop(input, output, 1, <<>>)

copy_buffer(input, output) ==
    copy_loop(input, output, 0, <<>>)

\* ------------------------------------------------------------------ Init
NoOp == [op |-> "none", idx |-> 0, val |-> 0, input |-> <<>>, before |-> <<>>]

\* One run: run B starts from the same contents as run A.
Init ==
    /\ handle \in {"ref", "slice"}
    /\ cell \in (IF handle = "ref" THEN Values ELSE {Default})
    /\ slice \in (IF handle = "slice" THEN Slices ELSE {<<>>})
    /\ cellB = cell
    /\ sliceB = slice
    /\ init = [cell |-> cell, slice |-> slice, cellB |-> cellB, sliceB |-> sliceB]
    /\ calls = <<>>
    /\ outcome = "none"
    /\ outcomeB = "none"
    /\ last = NoOp

\* Two runs: run A starts from the all-Default contents of some length, run B
\* from any contents of that length.  Every pair of runs is related through
\* the run A of its length.
InitPair ==
    /\ handle \in {"ref", "slice"}
    /\ cell = Default
    /\ slice \in (IF handle = "slice"
                 THEN {[k \in 1..n |-> Default] : n \in 0..MaxLen}
                 ELSE {<<>>})
    /\ cellB \in (IF handle = "ref" THEN Values ELSE {Default})
    /\ sliceB \in SeqsOfLen(Len(slice))
    /\ init = [cell |-> cell, slice |-> slice, cellB |-> cellB, sliceB |-> sliceB]
    /\ calls = <<>>
    /\ outcome = "none"
    /\ outcomeB = "none"
    /\ last = NoOp

\* --------------------------------------------------------------- actions
\* A panic unwinds the caller: nothing more is done through the handles.
Live == outcome # "panic" /\ outcomeB # "panic"

\* r.write(t) on a &mut T
Write(t) ==
    /\ handle = "ref"
    /\ Live
    /\ Len(calls) < MaxCalls
    /\ LET a == write(cell, t)
           b == write(cellB, t)
       IN  /\ cell' = a.cell
           /\ cellB' = b.cell
           /\ outcome' = a.outcome
           /\ outcomeB' = b.outcome
           /\ calls' = Append(calls, WriteCall(t, a.outcome))
    /\ last' = [op |-> "write", idx |-> 0, val |-> t, input |-> <<>>, before |-> slice]
    /\ UNCHANGED <<handle, slice, sliceB, init>>

\* clear(&mut counter)
Clear ==
    /\ handle = "ref"
    /\ Live
    /\ Len(calls) < MaxCalls
    /\ LET a == clear(cell)
           b == clear(cellB)
       IN  /\ cell' = a.cell
           /\ cellB' = b.cell
           /\ outcome' = a.outcome
           /\ outcomeB' = b.outcome
           /\ calls' = Append(calls, WriteCall(Default, a.outcome))
    /\ last' = [op |-> "clear", idx |-> 0, val |-> Default, input |-> <<>>, before |-> slice]
    /\ UNCHANGED <<handle, slice, sliceB, init>>

\* s.write_elem(idx, t) on a &mut [T]
WriteElem(idx, t) ==
    /\ handle = "slice"
    /\ Live
    /\ Len(calls) < MaxCalls
    /\ LET a == write_elem(slice, idx, t)
           b == write_elem(sliceB, idx, t)
       IN  /\ slice' = a.slice
           /\ sliceB' = b.slice
           /\ outcome' = a.outcome
           /\ outcomeB' = b.outcome
           /\ calls' = Append(calls, ElemCall(idx, t, a.outcome))
    /\ last' = [op |-> "write_elem", idx |-> idx, val |-> t, input |-> <<>>, before |-> slice]
    /\ UNCHANGED <<handle, cell, cellB, init>>

\* the number of write_elem calls copy_buffer makes: one per element of
\* input, up to and including the first that is out of range
CopyCalls(input, output) ==
    IF Len(input) <= Len(output) THEN Len(input) ELSE Len(output) + 1

\* copy_buffer(&input, &mut output)
CopyBuffer(input) ==
    /\ handle = "slice"
    /\ Live
    /\ Len(calls) + CopyCalls(input, slice) <= MaxCalls
    /\ LET a == copy_buffer(input, slice)
           b == copy_buffer(input, sliceB)
       IN  /\ slice' = a.slice
           /\ sliceB' = b.slice
           /\ outcome' = a.outcome
           /\ outcomeB' = b.outcome
           /\ calls' = calls \o a.calls
    /\ last' = [op |-> "copy_buffer", idx |-> 0, val |-> 0, input |-> input, before |-> slice]
    /\ UNCHANGED <<handle, cell, cellB, init>>

Next ==
    \/ \E t \in Values : Write(t)
    \/ Clear
    \/ \E idx \in Indices, t \in Values : WriteElem(idx, t)
    \/ \E input \in Inputs : CopyBuffer(input)

Spec == Init /\ [][Next]_vars

SpecPair == InitPair /\ [][Next]_vars

TypeOK ==
    /\ handle \in {"ref", "slice"}
    /\ cell \in Values
    /\ cellB \in Values
    /\ slice \in Slices
    /\ sliceB \in Slices
    /\ Len(calls) <= MaxCalls
    /\ outcome \in {"none", "ok", "panic"}
    /\ outcomeB \in {"none", "ok", "panic"}

\* ------------------------------------------------- reading the call history
OkElemCalls(p) ==
    {k \in 1..Len(calls) :
        calls[k].op = "write_elem" /\ calls[k].idx = p /\ calls[k].outcome = "ok"}

WriteCalls == {k \in 1..Len(calls) : calls[k].op = "write"}

Max(S) == CHOOSE m \in S : \A k \in S : k <= m

WrittenIdx == {p \in Indices : OkElemCalls(p) # {}}

\* contents produced by the first k recorded calls, starting from the
\* contents at construction
RECURSIVE SliceAfter(_)
SliceAfter(k) ==
    IF k = 0 THEN init.slice
    ELSE IF calls[k].op = "write_elem"
         THEN write_elem(SliceAfter(k - 1), calls[k].idx, calls[k].val).slice
         ELSE SliceAfter(k - 1)

RECURSIVE CellAfter(_)
CellAfter(k) ==
    IF k = 0 THEN init.cell
    ELSE IF calls[k].op = "write"
         THEN write(CellAfter(k - 1), calls[k].val).cell
         ELSE CellAfter(k - 1)

\* ------------------------------------------------------------------ C1
\* C1: write(v) through a &mut T handle always returns normally and leaves
\* the cell holding exactly v, whatever the cell held before.
C1_WriteStoresValue ==
    last.op \in {"write", "clear"} =>
        /\ outcome = "ok"
        /\ cell = last.val

C1_Witness ==
    /\ last.op = "write"
    /\ Len(calls) = 1
    /\ init.cell # last.val
    /\ cell = last.val

\* ------------------------------------------------------------------ C2
\* C2: after write_elem(i, v) with i in range, element i equals v, every
\* other element is as before the call, and the length is as before.
C2_WriteElemFrame ==
    (last.op = "write_elem" /\ last.idx < Len(last.before)) =>
        /\ Len(slice) = Len(last.before)
        /\ slice[last.idx + 1] = last.val
        /\ \A j \in 1..Len(last.before) :
              j # last.idx + 1 => slice[j] = last.before[j]

C2_Witness ==
    /\ last.op = "write_elem"
    /\ last.idx < Len(last.before)
    /\ Len(last.before) >= 2
    /\ last.before[last.idx + 1] # last.val
    /\ slice[last.idx + 1] = last.val
    /\ \E j \in 1..Len(slice) : slice[j] # last.val /\ slice[j] = last.before[j]

\* ------------------------------------------------------------------ C3
\* C3: write_elem(idx, v) on a slice of length n panics exactly when
\* idx >= n; otherwise it returns normally.
C3_PanicIffOutOfRange ==
    last.op = "write_elem" =>
        /\ outcome \in {"ok", "panic"}
        /\ (outcome = "panic") <=> (last.idx >= Len(last.before))

C3_Witness ==
    /\ last.op = "write_elem"
    /\ Len(last.before) > 0
    /\ last.idx = Len(last.before)
    /\ outcome = "panic"

\* ------------------------------------------------------------------ C4
\* C4: write(v1) directly followed by write(v2) leaves the cell equal to
\* v2, which is also what write(v2) alone gives from the content the cell
\* had before write(v1).
C4_LastWriteWins ==
    LET n == Len(calls) IN
    (n >= 2 /\ calls[n].op = "write" /\ calls[n - 1].op = "write") =>
        /\ cell = calls[n].val
        /\ cell = write(CellAfter(n - 2), calls[n].val).cell

C4_Witness ==
    LET n == Len(calls) IN
    /\ n >= 2
    /\ calls[n].op = "write"
    /\ calls[n - 1].op = "write"
    /\ calls[n - 1].val # calls[n].val
    /\ init.cell = calls[n - 1].val
    /\ cell = calls[n].val

\* ------------------------------------------------------------------ C5
\* C5: copy_buffer(input, output) with len(input) <= len(output) returns
\* normally, leaves output[0..len(input)] equal to input, and leaves the
\* remaining elements and the length of output as they were.
C5_CopyBuffer ==
    (last.op = "copy_buffer" /\ Len(last.input) <= Len(last.before)) =>
        /\ outcome = "ok"
        /\ Len(slice) = Len(last.before)
        /\ \A k \in 1..Len(last.input) : slice[k] = last.input[k]
        /\ \A k \in (Len(last.input) + 1)..Len(last.before) :
              slice[k] = last.before[k]

C5_Witness ==
    /\ last.op = "copy_buffer"
    /\ Len(last.input) >= 2
    /\ Len(last.before) = Len(last.input)
    /\ \A k \in 1..Len(last.input) : last.before[k] # last.input[k]
    /\ slice = last.input
    /\ outcome = "ok"

\* ------------------------------------------------------------------ C6
\* C6: two storages of equal length that receive the same calls end every
\* call the same way and agree on every position written and on the cell
\* once written, whatever they held at construction.
C6_WriteOnly ==
    /\ outcome = outcomeB
    /\ Len(slice) = Len(sliceB)
    /\ \A p \in WrittenIdx : slice[p + 1] = sliceB[p + 1]
    /\ WriteCalls # {} => cell = cellB

C6_Witness ==
    /\ \E p \in WrittenIdx :
          /\ init.slice[p + 1] # init.sliceB[p + 1]
          /\ slice[p + 1] = sliceB[p + 1]
    /\ \E j \in 1..Len(slice) : (j - 1) \notin WrittenIdx /\ slice[j] # sliceB[j]
    /\ outcome = "panic"
    /\ outcomeB = "panic"

\* ------------------------------------------------------------------ C8
\* C8: two successive in-range write_elem calls to different indices give
\* the same slice in either order.
C8_WritesCommute ==
    LET n == Len(calls) IN
    (/\ n >= 2
     /\ calls[n].op = "write_elem" /\ calls[n].outcome = "ok"
     /\ calls[n - 1].op = "write_elem" /\ calls[n - 1].outcome = "ok"
     /\ calls[n].idx # calls[n - 1].idx) =>
        LET s0 == SliceAfter(n - 2)
            s1 == write_elem(s0, calls[n].idx, calls[n].val)
            s2 == write_elem(s1.slice, calls[n - 1].idx, calls[n - 1].val)
        IN  /\ s1.outcome = "ok"
            /\ s2.outcome = "ok"
            /\ s2.slice = slice

C8_Witness ==
    LET n == Len(calls) IN
    /\ n >= 2
    /\ calls[n].op = "write_elem" /\ calls[n].outcome = "ok"
    /\ calls[n - 1].op = "write_elem" /\ calls[n - 1].outcome = "ok"
    /\ calls[n].idx < calls[n - 1].idx
    /\ calls[n].val # calls[n - 1].val
    /\ slice[calls[n].idx + 1] # init.slice[calls[n].idx + 1]
    /\ slice[calls[n - 1].idx + 1] # init.slice[calls[n - 1].idx + 1]

\* ------------------------------------------------------------------ C9
\* C9: every position of the slice holds the value of the most recent
\* in-range write_elem to it, or its value at construction if there was
\* none; the cell holds the value of the most recent write, or its value at
\* construction; the length of the slice is its length at construction.
C9_OnlyWrittenValues ==
    /\ Len(slice) = Len(init.slice)
    /\ \A j \in 1..Len(init.slice) :
          slice[j] = IF OkElemCalls(j - 1) = {}
                     THEN init.slice[j]
                     ELSE calls[Max(OkElemCalls(j - 1))].val
    /\ cell = IF WriteCalls = {}
              THEN init.cell
              ELSE calls[Max(WriteCalls)].val

C9_Witness ==
    /\ \E p \in WrittenIdx :
          /\ Cardinality(OkElemCalls(p)) >= 2
          /\ \E k \in OkElemCalls(p) : calls[k].val # slice[p + 1]
    /\ \E j \in 1..Len(slice) : (j - 1) \notin WrittenIdx /\ slice[j] # Default

\* ----------------------------------------------------------------- C10
\* C10: a write_elem call that panics leaves every element and the length
\* of the slice as they were before the call; writes made before it stay.
C10_PanicChangesNothing ==
    (last.op = "write_elem" /\ outcome = "panic") =>
        /\ slice = last.before
        /\ slice = SliceAfter(Len(calls) - 1)

C10_Witness ==
    /\ last.op = "write_elem"
    /\ outcome = "panic"
    /\ Len(calls) >= 2
    /\ slice = last.before
    /\ slice # init.slice
    /\ Len(slice) > 0
====
